---- MODULE Spec2Model ----
(***************************************************************************)
(* Model of api/index.py: the chat relay.  POST /api/chat validates the    *)
(* body against ChatRequest, then returns a StreamingResponse that drives  *)
(* the generator stream_gemini_response, which opens one streaming call on *)
(* the process-wide Gemini model and yields one SSE frame per fragment     *)
(* with non-empty text, then a done frame, or an error frame if anything   *)
(* inside the try block raises.                                            *)
(*                                                                         *)
(* The generator is modelled statement by statement between its blocking   *)
(* points (the generate_content call, the read of the next chunk, and the  *)
(* yields where it is suspended until the transport asks again).           *)
(***************************************************************************)
EXTENDS Integers, Sequences, FiniteSets, TLC

\* ---- bounds ----
NumReq == 2        \* requests the process serves, possibly at the same time
ConcFrags == 1     \* fragments per upstream stream when requests run concurrently
MaxFrags == 3      \* fragments per upstream stream when one request runs alone

Requests == 1..NumReq

\* ---- inputs ----
Messages == {"", "hello"}                  \* message strings of valid bodies
Texts == {"", "Hi", " there"}              \* chunk.text values
Errors == {"upstream down", "quota"}       \* str(e) of upstream exceptions

\* JSON values of a request body, tagged by their JSON type
JString(s) == [t |-> "string", s |-> s]
JNumber(s) == [t |-> "number", s |-> s]
EmptyObject == [f \in {} |-> JString("")]
BodyOf(m) == [f \in {"newMessage"} |-> JString(m)]
Bodies == {BodyOf(m) : m \in Messages}
          \cup {[f \in {"newMessage"} |-> JNumber("42")]}
          \cup {EmptyObject}
          \cup {[f \in {"message"} |-> JString("hello")]}

\* request lines: method and path
Target(m, p) == [method |-> m, path |-> p]
NoTarget == Target("", "")
Targets == {Target("POST", "/api/chat"), Target("POST", "/chat"),
            Target("GET", "/"), Target("GET", "/api/chat")}

\* the inputs one request can see: alone, and among concurrent requests
Alone == [bodies |-> Bodies, texts |-> Texts, errors |-> Errors,
          frags |-> MaxFrags, targets |-> Targets]
Among == [bodies |-> {BodyOf("hello"), EmptyObject}, texts |-> {"", "Hi"},
          errors |-> {"quota"}, frags |-> ConcFrags,
          targets |-> {Target("POST", "/api/chat"), Target("POST", "/chat"),
                       Target("GET", "/")}]

\* a chunk of the upstream stream: its text property returns a string or raises
Chunk(t) == [ok |-> TRUE, text |-> t]
BadChunk(e) == [ok |-> FALSE, text |-> e]

ModelName == "gemini-2.5-flash"

\* the routes of the app: @app.post("/api/chat") and @app.get("/"); a path
\* no route has is answered 404, a known path with another method 405
RouteChat(t) ==
  CASE t = Target("POST", "/chat") -> "handle_chat_stream"
    [] t = Target("GET", "/") -> "read_root"
    [] t.path \in {"/chat", "/"} -> "405"
    [] OTHER -> "404"
Route(t) ==
  CASE t = Target("POST", "/api/chat") -> "handle_chat_stream"
    [] t = Target("GET", "/") -> "read_root"
    [] t.path \in {"/api/chat", "/"} -> "405"
    [] OTHER -> "404"

\* a response as it starts: status line and Content-Type
Response(st, media) == [status |-> st, media |-> media]
NoResponse == Response("", "")

\* ChatRequest (pydantic): newMessage is required and must be a string
ChatRequestMissingOk(b) ==
  "newMessage" \in DOMAIN b => b["newMessage"].t = "string"
ChatRequestNonEmpty(b) ==
  /\ "newMessage" \in DOMAIN b
  /\ b["newMessage"].t = "string"
  /\ b["newMessage"].s # ""
ChatRequest(b) == "newMessage" \in DOMAIN b /\ b["newMessage"].t = "string"

\* json.dumps of a one-key dict, for strings that need no escaping
DumpsStr(s) == "\"" \o s \o "\""
Dumps(k, lit) == "{" \o DumpsStr(k) \o ": " \o lit \o "}"
SSE(json) == "data: " \o json \o "\n\n"

TextFrameRaw(t) == SSE(t)
TextFrame(t) == SSE(Dumps("text", DumpsStr(t)))
DoneFrame == SSE(Dumps("done", "true"))
ErrorMessageBare(e) == e
ErrorMessage(e) == "Backend streaming error: " \o e
ErrorFrame(e) == SSE(Dumps("error", DumpsStr(ErrorMessage(e))))
LogLine(e) == "Error during streaming: " \o e

VARIABLES
  model,            \* the module-level GenerativeModel (its model name)
  target,           \* per request: its method and path
  response,         \* per request: status and media type of the response
  pc,               \* per request: where the request / its generator stands
  body,             \* per request: the JSON body received
  new_message,      \* per request: the generator's argument
  response_stream,  \* per request: the generator's local, 0 = unbound
  streams,          \* the upstream stream objects, by identity
  calls,            \* per request: prompts of the generate_content calls made
  yielded,          \* per request: frames the generator has yielded
  disconnected,     \* per request: the caller has gone away
  raised,           \* per request: str(e) of the exceptions raised in the generator
  printed           \* per request: lines its generator printed

vars == <<model, target, response, pc, body, new_message, response_stream, streams, calls,
          yielded, disconnected, raised, printed>>

Suspended == {"created", "yield_text", "yield_done", "yield_error"}
Running == {"open", "iter"}

NoStream == [by |-> 0, model |-> "", prompt |-> "", frags |-> <<>>,
             status |-> "none"]

Init ==
  /\ model = ModelName
  /\ target = [r \in Requests |-> NoTarget]
  /\ response = [r \in Requests |-> NoResponse]
  /\ pc = [r \in Requests |-> "none"]
  /\ body = [r \in Requests |-> EmptyObject]
  /\ new_message = [r \in Requests |-> ""]
  /\ response_stream = [r \in Requests |-> 0]
  /\ streams = [s \in Requests |-> NoStream]
  /\ calls = [r \in Requests |-> <<>>]
  /\ yielded = [r \in Requests |-> <<>>]
  /\ disconnected = [r \in Requests |-> FALSE]
  /\ raised = [r \in Requests |-> <<>>]
  /\ printed = [r \in Requests |-> <<>>]

\* POST /api/chat with a body that fails validation: FastAPI answers 422
\* and handle_chat_stream is never called.
RejectRequest(r, in) ==
  /\ pc[r] = "none"
  /\ \E t \in in.targets :
       /\ Route(t) = "handle_chat_stream"
       /\ target' = [target EXCEPT ![r] = t]
  /\ \E b \in in.bodies :
       /\ ~ChatRequest(b)
       /\ body' = [body EXCEPT ![r] = b]
  /\ response' = [response EXCEPT ![r] = Response("422", "application/json")]
  /\ pc' = [pc EXCEPT ![r] = "rejected"]
  /\ UNCHANGED <<model, new_message, response_stream, streams, calls, yielded,
                 disconnected, raised, printed>>

\* handle_chat_stream: calling the generator function only creates the
\* generator object; none of its body has run when the response is returned.
handle_chat_stream(r, in) ==
  /\ pc[r] = "none"
  /\ \E t \in in.targets :
       /\ Route(t) = "handle_chat_stream"
       /\ target' = [target EXCEPT ![r] = t]
  /\ response' = [response EXCEPT ![r] = Response("200", "text/event-stream")]
  /\ \E b \in in.bodies :
       /\ ChatRequest(b)
       /\ body' = [body EXCEPT ![r] = b]
       \* request.newMessage; a field the body lacks reads as its default
       /\ new_message' = [new_message EXCEPT ![r] =
            IF "newMessage" \in DOMAIN b THEN b["newMessage"].s ELSE ""]
  /\ pc' = [pc EXCEPT ![r] = "created"]
  /\ UNCHANGED <<model, response_stream, streams, calls, yielded,
                 disconnected, raised, printed>>

\* a request no route matches: the router answers and no handler runs
NoRoute(r, in) ==
  /\ pc[r] = "none"
  /\ \E t \in in.targets :
       /\ Route(t) \in {"404", "405"}
       /\ target' = [target EXCEPT ![r] = t]
       /\ response' = [response EXCEPT ![r] =
                         Response(Route(t), "application/json")]
  /\ \E b \in in.bodies : body' = [body EXCEPT ![r] = b]
  /\ pc' = [pc EXCEPT ![r] = "unrouted"]
  /\ UNCHANGED <<model, new_message, response_stream, streams, calls, yielded,
                 disconnected, raised, printed>>

\* read_root: GET / returns the status object as JSON
read_root(r, in) ==
  /\ pc[r] = "none"
  /\ \E t \in in.targets :
       /\ Route(t) = "read_root"
       /\ target' = [target EXCEPT ![r] = t]
  /\ response' = [response EXCEPT ![r] = Response("200", "application/json")]
  /\ pc' = [pc EXCEPT ![r] = "health"]
  /\ UNCHANGED <<model, body, new_message, response_stream, streams, calls,
                 yielded, disconnected, raised, printed>>

\* Where the generator continues when the transport calls next() on it:
\* at the top of the body, back in the for loop after a text yield, or off
\* the end of the function after the done yield or the error yield.
ResumeFromRetry(p) ==
  CASE p = "created" -> "open"
    [] p = "yield_text" -> "iter"
    [] p = "yield_done" -> "returned"
    [] p = "yield_error" -> "open"
ResumeFromContinue(p) ==
  CASE p = "created" -> "open"
    [] p = "yield_text" -> "iter"
    [] p = "yield_done" -> "returned"
    [] p = "yield_error" -> "iter"
ResumeFrom(p) ==
  CASE p = "created" -> "open"
    [] p = "yield_text" -> "iter"
    [] p = "yield_done" -> "returned"
    [] p = "yield_error" -> "returned"

\* StreamingResponse iterates the generator: one next() call per frame,
\* made only while the caller is still connected.
TransportNext(r) ==
  /\ pc[r] \in Suspended
  /\ ~disconnected[r]
  /\ pc' = [pc EXCEPT ![r] = ResumeFrom(pc[r])]
  /\ UNCHANGED <<model, target, response, body, new_message, response_stream, streams, calls,
                 yielded, disconnected, raised, printed>>

\* a yield statement hands one more frame to the transport
EmitFirst(seq, frame) == <<frame>> \o seq
Emit(seq, frame) == Append(seq, frame)

\* the prompt passed to generate_content
Prompt(m) == m

\* every generate_content call returns a stream object of its own, bound to
\* the local response_stream of the calling generator
NewStreamShared(r) == 1
NewStream(r) == r

\* `if chunk.text:` -- an empty string is falsy
HasTextAlways(t) == TRUE
HasText(t) == t # ""

\* `except Exception` catches Exception and its subclasses; GeneratorExit
\* derives from BaseException only.
CatchesNarrow(cls) == cls = "ValueError"
CatchesBase(cls) == cls \in {"Exception", "GeneratorExit"}
Catches(cls) == cls = "Exception"

\* the except block: print the exception, then yield the error frame
ExceptNoLog(r, e) ==
  /\ raised' = [raised EXCEPT ![r] = Append(@, e)]
  /\ printed' = printed
  /\ yielded' = [yielded EXCEPT ![r] = Emit(@, ErrorFrame(e))]
  /\ pc' = [pc EXCEPT ![r] = "yield_error"]
Except(r, e) ==
  /\ raised' = [raised EXCEPT ![r] = Append(@, e)]
  /\ printed' = [printed EXCEPT ![r] = Append(@, LogLine(e))]
  /\ yielded' = [yielded EXCEPT ![r] = Emit(@, ErrorFrame(e))]
  /\ pc' = [pc EXCEPT ![r] = "yield_error"]

\* an exception raised inside the try block: the except clause handles it
\* if it catches its class, otherwise it leaves the generator
Raise(r, e) ==
  IF Catches("Exception")
    THEN Except(r, e)
    ELSE /\ raised' = [raised EXCEPT ![r] = Append(@, e)]
         /\ pc' = [pc EXCEPT ![r] = "crashed"]
         /\ UNCHANGED <<yielded, printed>>

UpstreamCall(r, st) ==
  [by |-> r, model |-> model, prompt |-> Prompt(new_message[r]),
   frags |-> <<>>, status |-> st]

\* model.generate_content(new_message, stream=True) returns a stream
OpenStreamReconfigure(r) ==
  /\ pc[r] = "open"
  /\ model' = "gemini-pro"
  /\ calls' = [calls EXCEPT ![r] = Append(@, Prompt(new_message[r]))]
  /\ streams' = [streams EXCEPT ![NewStream(r)] =
                   IF @ = NoStream THEN UpstreamCall(r, "streaming") ELSE @]
  /\ response_stream' = [response_stream EXCEPT ![r] = NewStream(r)]
  /\ pc' = [pc EXCEPT ![r] = "iter"]
  /\ UNCHANGED <<target, response, body, new_message, yielded, disconnected,
                 raised, printed>>
OpenStream(r) ==
  /\ pc[r] = "open"
  /\ calls' = [calls EXCEPT ![r] = Append(@, Prompt(new_message[r]))]
  /\ streams' = [streams EXCEPT ![NewStream(r)] =
                   IF @ = NoStream THEN UpstreamCall(r, "streaming") ELSE @]
  /\ response_stream' = [response_stream EXCEPT ![r] = NewStream(r)]
  /\ pc' = [pc EXCEPT ![r] = "iter"]
  /\ UNCHANGED <<model, target, response, body, new_message, yielded, disconnected, raised,
                 printed>>

\* model.generate_content(new_message, stream=True) raises
OpenRaises(r, in) ==
  /\ pc[r] = "open"
  /\ calls' = [calls EXCEPT ![r] = Append(@, Prompt(new_message[r]))]
  /\ \E e \in in.errors : Raise(r, e)
  /\ UNCHANGED <<model, target, response, body, new_message, response_stream, streams,
                 disconnected>>

\* the for loop reads a chunk whose text is non-empty and yields it
ChunkTextEager(r, in) ==
  /\ pc[r] = "iter"
  /\ response_stream[r] # 0
  /\ LET s == response_stream[r] IN
     /\ streams[s].status = "streaming"
     /\ Len(streams[s].frags) < in.frags
     /\ \E t \in in.texts :
          /\ HasText(t)
          /\ streams' = [streams EXCEPT ![s].frags = Append(@, Chunk(t))]
          /\ yielded' = [yielded EXCEPT ![r] = Emit(@, TextFrame(t))]
  /\ UNCHANGED <<model, target, response, pc, body, new_message,
                 response_stream, calls, disconnected, raised, printed>>
ChunkText(r, in) ==
  /\ pc[r] = "iter"
  /\ response_stream[r] # 0
  /\ LET s == response_stream[r] IN
     /\ streams[s].status = "streaming"
     /\ Len(streams[s].frags) < in.frags
     /\ \E t \in in.texts :
          /\ HasText(t)
          /\ streams' = [streams EXCEPT ![s].frags = Append(@, Chunk(t))]
          /\ yielded' = [yielded EXCEPT ![r] = Emit(@, TextFrame(t))]
  /\ pc' = [pc EXCEPT ![r] = "yield_text"]
  /\ UNCHANGED <<model, target, response, body, new_message, response_stream, calls,
                 disconnected, raised, printed>>

\* the for loop reads a chunk whose text is empty and goes on to the next
ChunkEmpty(r, in) ==
  /\ pc[r] = "iter"
  /\ response_stream[r] # 0
  /\ LET s == response_stream[r] IN
     /\ streams[s].status = "streaming"
     /\ Len(streams[s].frags) < in.frags
     /\ \E t \in in.texts :
          /\ ~HasText(t)
          /\ streams' = [streams EXCEPT ![s].frags = Append(@, Chunk(t))]
  /\ UNCHANGED <<model, target, response, pc, body, new_message, response_stream, calls,
                 yielded, disconnected, raised, printed>>

\* the for loop reads a chunk whose text property raises
ChunkTextRaises(r, in) ==
  /\ pc[r] = "iter"
  /\ response_stream[r] # 0
  /\ LET s == response_stream[r] IN
     /\ streams[s].status = "streaming"
     /\ Len(streams[s].frags) < in.frags
     /\ \E e \in in.errors :
          /\ streams' = [streams EXCEPT ![s].frags = Append(@, BadChunk(e))]
          /\ Raise(r, e)
  /\ UNCHANGED <<model, target, response, body, new_message, response_stream, calls,
                 disconnected>>

\* the upstream stream is exhausted: the loop ends and done is yielded
StreamDoneSilent(r) ==
  /\ pc[r] = "iter"
  /\ response_stream[r] # 0
  /\ LET s == response_stream[r] IN
     /\ streams' = [streams EXCEPT ![s].status =
                      IF @ = "streaming" THEN "exhausted" ELSE @]
  /\ pc' = [pc EXCEPT ![r] = "returned"]
  /\ UNCHANGED <<model, target, response, body, new_message, response_stream, calls, yielded,
                 disconnected, raised, printed>>
StreamDoneSpin(r) ==
  /\ pc[r] = "iter"
  /\ response_stream[r] # 0
  /\ LET s == response_stream[r] IN
     /\ streams' = [streams EXCEPT ![s].status =
                      IF @ = "streaming" THEN "exhausted" ELSE @]
  /\ UNCHANGED <<model, target, response, pc, body, new_message,
                 response_stream, calls, yielded, disconnected, raised,
                 printed>>
StreamDone(r) ==
  /\ pc[r] = "iter"
  /\ response_stream[r] # 0
  /\ LET s == response_stream[r] IN
     /\ streams' = [streams EXCEPT ![s].status =
                      IF @ = "streaming" THEN "exhausted" ELSE @]
  /\ yielded' = [yielded EXCEPT ![r] = Emit(@, DoneFrame)]
  /\ pc' = [pc EXCEPT ![r] = "yield_done"]
  /\ UNCHANGED <<model, target, response, body, new_message, response_stream, calls,
                 disconnected, raised, printed>>

\* reading the next chunk raises
StreamRaises(r, in) ==
  /\ pc[r] = "iter"
  /\ response_stream[r] # 0
  /\ LET s == response_stream[r] IN
     /\ streams[s].status = "streaming"
     /\ \E e \in in.errors :
          /\ streams' = [streams EXCEPT ![s].status = "failed"]
          /\ Raise(r, e)
  /\ UNCHANGED <<model, target, response, body, new_message, response_stream, calls,
                 disconnected>>

\* the caller goes away while the response is in progress
Disconnect(r) ==
  /\ pc[r] \in Suspended \cup Running
  /\ ~disconnected[r]
  /\ disconnected' = [disconnected EXCEPT ![r] = TRUE]
  /\ UNCHANGED <<model, target, response, pc, body, new_message, response_stream, streams,
                 calls, yielded, raised, printed>>

\* the transport drops the generator of a disconnected caller: close()
\* throws GeneratorExit at the yield where the generator is suspended
Close(r) ==
  /\ disconnected[r]
  /\ pc[r] \in Suspended
  /\ IF pc[r] \in {"yield_text", "yield_done"} /\ Catches("GeneratorExit")
       THEN /\ Except(r, "")
            /\ UNCHANGED <<model, target, response, body, new_message, response_stream, streams,
                           calls, disconnected>>
       ELSE /\ pc' = [pc EXCEPT ![r] = "closed"]
            /\ UNCHANGED <<model, target, response, body, new_message, response_stream, streams,
                           calls, yielded, disconnected, raised, printed>>

\* the process serving all its requests, interleaved in any way
Next ==
  \E r \in Requests :
    \/ NoRoute(r, Among)
    \/ read_root(r, Among)
    \/ RejectRequest(r, Among)
    \/ handle_chat_stream(r, Among)
    \/ TransportNext(r)
    \/ OpenStream(r)
    \/ OpenRaises(r, Among)
    \/ ChunkText(r, Among)
    \/ ChunkEmpty(r, Among)
    \/ ChunkTextRaises(r, Among)
    \/ StreamDone(r)
    \/ StreamRaises(r, Among)
    \/ Disconnect(r)
    \/ Close(r)

Spec == Init /\ [][Next]_vars

\* one request on its own, with every input it can see
NextStream ==
  \E r \in {1} :
    \/ NoRoute(r, Alone)
    \/ read_root(r, Alone)
    \/ RejectRequest(r, Alone)
    \/ handle_chat_stream(r, Alone)
    \/ TransportNext(r)
    \/ OpenStream(r)
    \/ OpenRaises(r, Alone)
    \/ ChunkText(r, Alone)
    \/ ChunkEmpty(r, Alone)
    \/ ChunkTextRaises(r, Alone)
    \/ StreamDone(r)
    \/ StreamRaises(r, Alone)
    \/ Disconnect(r)
    \/ Close(r)

SpecStream == Init /\ [][NextStream]_vars

\* a step of the generator that waits on the upstream only: the call or the
\* read of the next chunk returns or raises
UpstreamAnswers(r) ==
  \/ OpenStream(r)
  \/ OpenRaises(r, Alone)
  \/ ChunkText(r, Alone)
  \/ ChunkEmpty(r, Alone)
  \/ ChunkTextRaises(r, Alone)
  \/ StreamDone(r)
  \/ StreamRaises(r, Alone)

\* one request whose finite upstream answers every call and read, and whose
\* transport asks for the next frame as long as the caller is connected
SpecLive ==
  /\ Init
  /\ [][NextStream]_vars
  /\ WF_vars(TransportNext(1))
  /\ WF_vars(UpstreamAnswers(1))

(***************************************************************************)
(* The events of the interface, written out as the caller sees them.       *)
(***************************************************************************)
TextEvent(t) == "data: {\"text\": \"" \o t \o "\"}\n\n"
DoneEvent == "data: {\"done\": true}\n\n"
ErrorEvent(m) == "data: {\"error\": \"" \o m \o "\"}\n\n"
UpstreamError(e) == ErrorEvent("Backend streaming error: " \o e)

IsTextEvent(f) == \E t \in Texts : f = TextEvent(t)
IsErrorEvent(f) ==
  \E e \in Errors \cup {""} : f = UpstreamError(e) \/ f = ErrorEvent(e)
IsTerminalEvent(f) == f = DoneEvent \/ IsErrorEvent(f)
Terminals(seq) == {i \in 1..Len(seq) : IsTerminalEvent(seq[i])}

\* the fragments request r has consumed from the stream it iterates
Frags(r) ==
  IF response_stream[r] = 0 THEN <<>> ELSE streams[response_stream[r]].frags
UpstreamStatus(r) ==
  IF response_stream[r] = 0 THEN "none" ELSE streams[response_stream[r]].status

\* one text event per fragment whose text is a non-empty string, in order
RECURSIVE TextEventsOf(_)
TextEventsOf(frags) ==
  IF frags = <<>> THEN <<>>
  ELSE (IF Head(frags).ok /\ Head(frags).text # ""
          THEN <<TextEvent(Head(frags).text)>> ELSE <<>>)
       \o TextEventsOf(Tail(frags))

\* a is b with some elements left out
RECURSIVE IsSubseq(_, _)
IsSubseq(a, b) ==
  IF a = <<>> THEN TRUE
  ELSE IF b = <<>> THEN FALSE
  ELSE IF Head(a) = Head(b) THEN IsSubseq(Tail(a), Tail(b))
  ELSE IsSubseq(a, Tail(b))

Malformed(b) == "newMessage" \notin DOMAIN b \/ b["newMessage"].t # "string"

\* C1: a generator that has run to its end has yielded exactly one terminal
\* event (done or error), and that event is the last one of its stream.
C1_OneTerminalLast ==
  \A r \in Requests :
    pc[r] = "returned" =>
      /\ yielded[r] # <<>>
      /\ Terminals(yielded[r]) = {Len(yielded[r])}

C1_Witness ==
  /\ pc[1] = "returned"
  /\ Len(yielded[1]) = 3
  /\ IsErrorEvent(yielded[1][3])

\* C2: the text events yielded so far are, in the same order, events of the
\* fragments consumed so far, and no text event comes after a terminal event.
C2_UpstreamOrder ==
  \A r \in Requests :
    /\ IsSubseq(SelectSeq(yielded[r], IsTextEvent),
                [i \in 1..Len(Frags(r)) |->
                   IF Frags(r)[i].ok THEN TextEvent(Frags(r)[i].text)
                   ELSE ""])
    /\ \A i, j \in 1..Len(yielded[r]) :
         IsTerminalEvent(yielded[r][i]) /\ IsTextEvent(yielded[r][j]) => j < i

C2_Witness ==
  /\ Len(Frags(1)) = 3
  /\ Frags(1)[1] = Chunk(" there")
  /\ Frags(1)[3] = Chunk("Hi")
  /\ yielded[1] = <<TextEvent(" there"), TextEvent("Hi"), DoneEvent>>

\* C3: no yielded event is a text event with empty text; the step that
\* consumes a fragment with empty text yields nothing and leaves the
\* generator in the loop, reading on.
C3_NoEmptyText ==
  /\ [](\A r \in Requests : \A i \in 1..Len(yielded[r]) :
          yielded[r][i] # TextEvent(""))
  /\ [][\A r \in Requests :
          (/\ Len(Frags(r)') = Len(Frags(r)) + 1
           /\ Frags(r)'[Len(Frags(r)')] = Chunk(""))
          => (yielded'[r] = yielded[r] /\ pc'[r] = "iter")]_vars

C3_Witness ==
  /\ Frags(1) = <<Chunk(""), Chunk(""), Chunk("Hi")>>
  /\ yielded[1] = <<TextEvent("Hi")>>

\* C4: when the upstream stream is exhausted and nothing raised, the stream
\* is the text events of the fragments with non-empty text, unchanged and in
\* order, followed by done and nothing else.
C4_NormalCompletion ==
  \A r \in Requests :
    (UpstreamStatus(r) = "exhausted" /\ raised[r] = <<>>) =>
      yielded[r] = TextEventsOf(Frags(r)) \o <<DoneEvent>>

C4_Witness ==
  /\ new_message[1] = "hello"
  /\ Frags(1) = <<Chunk("Hi"), Chunk(" there")>>
  /\ pc[1] = "returned"
  /\ yielded[1] = <<TextEvent("Hi"), TextEvent(" there"), DoneEvent>>

\* C5: when the upstream raises before any fragment (at the call or at the
\* first read), the stream is one error event with the prefixed description.
C5_ErrorBeforeAnyFragment ==
  \A r \in Requests :
    (raised[r] # <<>> /\ Frags(r) = <<>>) =>
      yielded[r] = <<UpstreamError(raised[r][1])>>

C5_Witness ==
  /\ new_message[1] = "hello"
  /\ UpstreamStatus(1) = "failed"
  /\ Frags(1) = <<>>
  /\ yielded[1] =
       <<"data: {\"error\": \"Backend streaming error: upstream down\"}\n\n">>

\* C6: when the upstream raises after k >= 1 fragments, the stream is the
\* text events of those fragments followed by one error event, without done;
\* from then on no fragment is consumed and no event is added.
C6_ErrorAfterFragments ==
  /\ [](\A r \in Requests :
          (raised[r] # <<>> /\ Len(Frags(r)) >= 1) =>
             /\ Len(raised[r]) = 1
             /\ yielded[r] =
                  TextEventsOf(Frags(r)) \o <<UpstreamError(raised[r][1])>>)
  /\ [][\A r \in Requests :
          raised[r] # <<>> =>
            (Frags(r)' = Frags(r) /\ yielded'[r] = yielded[r])]_vars

C6_Witness ==
  /\ pc[1] = "returned"
  /\ Frags(1) = <<Chunk("Hi"), Chunk(""), Chunk(" there")>>
  /\ UpstreamStatus(1) = "failed"
  /\ yielded[1] =
       <<TextEvent("Hi"), TextEvent(" there"), UpstreamError("quota")>>

\* C7: a request with a malformed body is rejected: it never yields an
\* event and never opens an upstream call.
C7_MalformedRejected ==
  \A r \in Requests :
    (pc[r] # "none" /\ Malformed(body[r])) =>
      /\ Route(target[r]) = "handle_chat_stream" => pc[r] = "rejected"
      /\ pc[r] \in {"rejected", "unrouted", "health"}
      /\ yielded[r] = <<>>
      /\ calls[r] = <<>>
      /\ response_stream[r] = 0

C7_Witness ==
  /\ pc[1] = "rejected"
  /\ response[1].status = "422"
  /\ body[1] = EmptyObject

\* C8: a request makes at most one generate_content call, and its prompt is
\* the message of the request body, unchanged.
C8_OneCallSolePrompt ==
  \A r \in Requests :
    /\ Len(calls[r]) <= 1
    /\ calls[r] # <<>> =>
         /\ ~Malformed(body[r])
         /\ calls[r][1] = body[r]["newMessage"].s
    /\ response_stream[r] # 0 =>
         streams[response_stream[r]].prompt = body[r]["newMessage"].s

C8_Witness ==
  /\ pc[1] = "returned"
  /\ raised[1] # <<>>
  /\ calls[1] = <<"hello">>

\* C9: once the caller of a request has disconnected, no further fragment is
\* consumed from its upstream stream and no further event is yielded for it.
C9_AbandonedOnDisconnect ==
  [][\A r \in Requests :
       disconnected[r] =>
         (Frags(r)' = Frags(r) /\ yielded'[r] = yielded[r])]_vars

\* what the stream of request r is when it runs alone: a function of the
\* fragments of its own upstream stream and of how that stream ended
StreamAlone(frags, status, exc) ==
  TextEventsOf(frags)
  \o (IF exc # <<>> THEN <<UpstreamError(exc[1])>>
      ELSE IF status = "exhausted" THEN <<DoneEvent>>
      ELSE <<>>)

\* what a step can change for request r
Own(r) == <<target[r], response[r], pc[r], body[r], new_message[r], response_stream[r], calls[r],
            yielded[r], disconnected[r], raised[r], printed[r], Frags(r),
            UpstreamStatus(r)>>

\* C10: with requests interleaved in any way, each request iterates a stream
\* opened by itself and shared with no other request, its events are those
\* it yields alone on that stream, and a step of one request changes
\* nothing of another.
C10_Independent ==
  /\ [](\A r \in Requests :
          /\ response_stream[r] # 0 =>
               /\ streams[response_stream[r]].by = r
               /\ \A q \in Requests \ {r} :
                    response_stream[q] # response_stream[r]
          /\ yielded[r] =
               StreamAlone(Frags(r), UpstreamStatus(r), raised[r]))
  /\ [][\A r, q \in Requests :
          (r # q /\ Own(r)' # Own(r)) => Own(q)' = Own(q)]_vars

C10_Witness ==
  /\ pc[1] = "returned"
  /\ UpstreamStatus(1) = "failed"
  /\ yielded[1] = <<TextEvent("Hi"), UpstreamError("quota")>>
  /\ pc[2] = "yield_done"
  /\ yielded[2] = <<TextEvent("Hi"), DoneEvent>>

\* C11 (as stated): a POST to /chat with a valid body is answered by the
\* relay handler with a text/event-stream response.
C11_ServedAtChat ==
  \A r \in Requests :
    (target[r] = Target("POST", "/chat") /\ ~Malformed(body[r])) =>
      /\ response[r] = Response("200", "text/event-stream")
      /\ pc[r] # "unrouted"

\* C11 (amended): a POST to /api/chat with a valid body is answered by the
\* relay handler with a text/event-stream response; no other request is.
C11_ServedAtApiChat ==
  \A r \in Requests :
    /\ (target[r] = Target("POST", "/api/chat") /\ ~Malformed(body[r])) =>
         /\ response[r] = Response("200", "text/event-stream")
         /\ pc[r] \notin {"unrouted", "rejected", "health"}
    /\ response[r].media = "text/event-stream" =>
         target[r] = Target("POST", "/api/chat")

C11_Witness ==
  /\ target[1] = Target("POST", "/api/chat")
  /\ body[1] = BodyOf("hello")
  /\ response[1] = Response("200", "text/event-stream")
  /\ pc[1] = "yield_text"

\* C12: a chat request whose message is the empty string is accepted: it is
\* never rejected, its upstream call carries the empty string as prompt,
\* and once its generator has run to the end its last event is done or error.
C12_EmptyMessageAccepted ==
  \A r \in Requests :
    (target[r] = Target("POST", "/api/chat") /\ body[r] = BodyOf("")) =>
      /\ pc[r] # "rejected"
      /\ response[r].status = "200"
      /\ calls[r] \in {<<>>, <<"">>}
      /\ pc[r] \in (Suspended \cup {"iter", "returned"}) \ {"created"} =>
           calls[r] = <<"">>
      /\ pc[r] = "returned" => IsTerminalEvent(yielded[r][Len(yielded[r])])

C12_Witness ==
  /\ body[1] = BodyOf("")
  /\ calls[1] = <<"">>
  /\ pc[1] = "returned"
  /\ yielded[1] = <<TextEvent("Hi"), DoneEvent>>

\* the upstream call of request r raised, its stream raised, or the text of
\* its last fragment raised
OpenFailed(r) == calls[r] # <<>> /\ response_stream[r] = 0
LastFragBad(r) == Frags(r) # <<>> /\ ~Frags(r)[Len(Frags(r))].ok
UpstreamFailed(r) ==
  OpenFailed(r) \/ UpstreamStatus(r) = "failed" \/ LastFragBad(r)
ErrorEvents(seq) == SelectSeq(seq, IsErrorEvent)

\* C13: every upstream exception is both logged and surfaced: whenever the
\* upstream of a request has failed, the log holds the line for that
\* exception and the last event is the error event for it, and no error
\* event is ever yielded without its log line already written.
C13_LoggedAndSurfaced ==
  \A r \in Requests :
    /\ UpstreamFailed(r) =>
         \E e \in Errors :
           /\ LastFragBad(r) => e = Frags(r)[Len(Frags(r))].text
           /\ printed[r] = <<"Error during streaming: " \o e>>
           /\ yielded[r] # <<>>
           /\ yielded[r][Len(yielded[r])] = UpstreamError(e)
    /\ Len(ErrorEvents(yielded[r])) <= Len(printed[r])
    /\ Len(printed[r]) = Len(raised[r])

C13_Witness ==
  /\ UpstreamStatus(1) = "failed"
  /\ printed[1] = <<"Error during streaming: upstream down">>
  /\ yielded[1] = <<TextEvent("Hi"), UpstreamError("upstream down")>>

\* C14: an upstream failure never leaves the generator as an exception and
\* never changes the response already begun: after the error event the
\* generator ends normally at the next call (or is closed by the transport).
C14_FailureStaysInBand ==
  /\ [](\A r \in Requests :
          /\ pc[r] # "crashed"
          /\ UpstreamFailed(r) =>
               /\ pc[r] \in {"yield_error", "returned", "closed"}
               /\ response[r] = Response("200", "text/event-stream"))
  /\ [][\A r \in Requests :
          (pc[r] = "yield_error" /\ pc'[r] # pc[r]) =>
            pc'[r] \in {"returned", "closed"}]_vars

C14_Witness ==
  /\ pc[1] = "returned"
  /\ Frags(1) = <<Chunk(""), BadChunk("quota")>>
  /\ yielded[1] = <<UpstreamError("quota")>>
  /\ ~disconnected[1]

\* C15: in every state of a stream at most one terminal event has been
\* yielded and it is the last event: no text event follows done or error,
\* and no error follows done, also when the generator is closed while it is
\* suspended at the done yield inside the try block.
C15_NothingAfterTerminal ==
  \A r \in Requests :
    /\ Cardinality(Terminals(yielded[r])) <= 1
    /\ \A i \in Terminals(yielded[r]) : i = Len(yielded[r])

C15_Witness ==
  /\ pc[1] = "closed"
  /\ disconnected[1]
  /\ yielded[1] = <<TextEvent("Hi"), DoneEvent>>

\* C16: the generator does nothing until the transport asks and suspends at
\* every event: before the first next() no upstream call is open; a call is
\* opened, a fragment consumed or an event yielded only while a next() call
\* is running; every yielded event suspends the generator again; and no
\* consumed fragment with text is left without its event.
C16_LazyNoBuffering ==
  /\ [](\A r \in Requests :
          /\ pc[r] \in {"none", "created"} =>
               (calls[r] = <<>> /\ response_stream[r] = 0 /\ yielded[r] = <<>>)
          /\ SelectSeq(yielded[r], IsTextEvent) = TextEventsOf(Frags(r)))
  /\ [][\A r \in Requests :
          /\ (\/ calls'[r] # calls[r]
              \/ Frags(r)' # Frags(r)
              \/ yielded'[r] # yielded[r]) => pc[r] \in Running
          /\ yielded'[r] # yielded[r] =>
               /\ Len(yielded'[r]) = Len(yielded[r]) + 1
               /\ pc'[r] \in Suspended
          /\ Len(Frags(r)') <= Len(Frags(r)) + 1
          /\ (pc[r] \in Suspended /\ pc'[r] \in Running) =>
               ~disconnected[r]]_vars

C16_Witness ==
  /\ pc[1] = "yield_text"
  /\ ~disconnected[1]
  /\ Frags(1) = <<Chunk("Hi"), Chunk(""), Chunk(" there")>>
  /\ yielded[1] = <<TextEvent("Hi"), TextEvent(" there")>>

\* C17: with a finite upstream and a caller that stays connected, a stream
\* that was begun ends: a terminal event is yielded and the generator
\* returns; and a stream never holds more text events than fragments
\* consumed.
C17_Terminates ==
  /\ [](\A r \in Requests :
          Len(SelectSeq(yielded[r], IsTextEvent)) <= Len(Frags(r)))
  /\ \A r \in Requests :
       (pc[r] = "created") ~>
         \/ disconnected[r]
         \/ /\ pc[r] = "returned"
            /\ Terminals(yielded[r]) = {Len(yielded[r])}

C17_Witness ==
  /\ pc[1] = "returned"
  /\ ~disconnected[1]
  /\ Len(Frags(1)) = MaxFrags
  /\ yielded[1] = <<DoneEvent>>

\* C18: whatever requests have been served, the process-wide model is the
\* one configured at startup, and every upstream call was made on that
\* model with the message of the request that made it.
C18_ConfigurationUnchanged ==
  /\ model = "gemini-2.5-flash"
  /\ \A s \in DOMAIN streams :
       streams[s] # NoStream =>
         /\ streams[s].model = "gemini-2.5-flash"
         /\ streams[s].by \in Requests
         /\ streams[s].prompt = body[streams[s].by]["newMessage"].s

C18_Witness ==
  /\ pc[1] = "returned"
  /\ UpstreamStatus(1) = "failed"
  /\ pc[2] = "iter"
  /\ calls[2] = <<"hello">>
  /\ streams[2].model = "gemini-2.5-flash"
====
